---- MODULE Spec2Model ----
(***************************************************************************)
(* Model of scripts/port_translation.py: porting a legacy Android          *)
(* strings.xml translation to the 2025 key set.                            *)
(*                                                                         *)
(* Text is modelled as a sequence of tokens.  Each token stands for a      *)
(* fixed piece of text of the file:                                        *)
(*   open  k   the opening delimiter  <string name="k">                    *)
(*   close     the closing delimiter  </string>                            *)
(*   text  s   a run of plain characters s (no markup, no entity)          *)
(*   escopen k the entity-escaped text &lt;string name="k"&gt;             *)
(*   escclose  the entity-escaped text &lt;/string&gt;                     *)
(*   selfclosed k  the empty element  <string name="k" />                  *)
(*   elem  g   a complete inline child element with tag g, e.g. <b>..</b>  *)
(*   elemns g  the same element carrying an xmlns:...="..." declaration,   *)
(*             as ElementTree serialises a namespaced tag                  *)
(*   openns k  the opening delimiter carrying an xmlns:...="..."           *)
(*             declaration,  <string xmlns:..=".." name="k">               *)
(* A file's text is understood inside the <resources> root element.        *)
(***************************************************************************)
EXTENDS Integers, Sequences, FiniteSets, TLC

\* ---------------------------------------------------------------- bounds
\* Longest mapping sequence handed to apply_mappings.
MaxPairs == 2
\* Longest target text handed to rewrite_strings.
MaxLen == 4
\* Number of times main is run on the same tree.
MaxRuns == 2

\* ---------------------------------------------------------------- tokens
Tok(t, v) == [t |-> t, v |-> v]
Open(k) == Tok("open", k)
Close == Tok("close", "")
Txt(s) == Tok("text", s)
EscOpen(k) == Tok("escopen", k)
EscClose == Tok("escclose", "")
SelfClosed(k) == Tok("selfclosed", k)
Elem(g) == Tok("elem", g)
ElemNs(g) == Tok("elemns", g)
OpenNs(k) == Tok("openns", k)

\* Tags that live in a registered namespace (tools:, xliff:).
Namespaced(g) == g \in {"xliff:g"}

\* Dictionaries are functions; the empty dictionary.
EmptyDict == [x \in {} |-> <<>>]
Put(d, k, v) == [x \in (DOMAIN d) \cup {k} |-> IF x = k THEN v ELSE d[x]]
DictGet(d, k, dflt) == IF k \in DOMAIN d THEN d[k] ELSE dflt

Min(S) == CHOOSE x \in S : \A y \in S : x <= y
Max(S) == CHOOSE x \in S : \A y \in S : x >= y

RECURSIVE Flatten(_)
Flatten(ss) == IF ss = <<>> THEN <<>> ELSE Head(ss) \o Flatten(Tail(ss))

\* ------------------------------------------------------------- STRING_RE
\* First position >= i holding a token of a kind in T, 0 when there is none.
NextTok(s, i, T) ==
  LET C == {j \in i..Len(s) : s[j].t \in T}
  IN IF C = {} THEN 0 ELSE Min(C)

\* What <string\s+[^>]*name="([^"]+)"[^>]*> matches: an opening delimiter,
\* with or without a declaration before its name, and the empty element as
\* well, its " /" being [^>]*.
HeaderKinds == {"open", "openns", "selfclosed"}

\* STRING_RE.finditer(s): the non-overlapping matches left to right.  A match
\* starts at an opening delimiter and, its body being lazy (.*? with DOTALL),
\* ends at the first closing delimiter after it, whatever lies between.
RECURSIVE FindIterFrom(_, _)
FindIterFrom(s, pos) ==
  LET o == NextTok(s, pos, HeaderKinds)
      c == IF o = 0 THEN 0 ELSE NextTok(s, o + 1, {"close"})
  IN IF o = 0 \/ c = 0 THEN <<>>
     ELSE <<[start |-> o, end |-> c, name |-> s[o].v,
             body |-> SubSeq(s, o + 1, c - 1)]>> \o FindIterFrom(s, c + 1)

FindIter(s) == FindIterFrom(s, 1)

\* {m.group("name"): m.group("body") for m in finditer}: the last match of a
\* name wins.
BodiesOf(ms) ==
  [k \in {ms[i].name : i \in DOMAIN ms} |->
     ms[Max({i \in DOMAIN ms : ms[i].name = k})].body]

parse_string_bodies(content) == BodiesOf(FindIter(content))

\* The sequence of entry keys of a text, in textual order.
KeySeq(s) == LET ms == FindIter(s) IN [i \in DOMAIN ms |-> ms[i].name]

\* ------------------------------------------------------- ElementTree side
\* Entity handling of the XML parser (text nodes hold the characters the
\* entities stand for) and of the serialiser (&, < and > of a text node are
\* written as entities again).
UnescapeTok(t) ==
  IF t.t = "escopen" THEN Open(t.v)
  ELSE IF t.t = "escclose" THEN Close
  ELSE t
EscapeTok(t) ==
  IF t.t = "open" THEN EscOpen(t.v)
  ELSE IF t.t = "close" THEN EscClose
  ELSE t
Unescape(s) == [i \in DOMAIN s |-> UnescapeTok(s[i])]
Escape(s) == [i \in DOMAIN s |-> EscapeTok(s[i])]

\* The start tags of a <string> element with content, for the XML parser.
StartKinds == {"open", "openns"}

\* The parser keeps no namespace declaration: an element is its tag, its
\* attributes and its content, wherever its prefix was declared.
ParsedTok(t) ==
  IF t.t = "elemns" THEN Elem(t.v)
  ELSE IF t.t = "openns" THEN Open(t.v)
  ELSE t
Parsed(s) == [i \in DOMAIN s |-> ParsedTok(s[i])]

\* Position of the closing delimiter that balances an opening delimiter
\* before position i of s (depth of them open), 0 when there is none.
RECURSIVE MatchingClose(_, _, _)
MatchingClose(s, i, depth) ==
  IF i > Len(s) THEN 0
  ELSE IF s[i].t \in StartKinds THEN MatchingClose(s, i + 1, depth + 1)
  ELSE IF s[i].t = "close" THEN
         IF depth = 1 THEN i ELSE MatchingClose(s, i + 1, depth - 1)
  ELSE MatchingClose(s, i + 1, depth)

IsChildStart(t) == t.t \in {"elem", "elemns", "open", "openns", "selfclosed"}

\* The children of an element whose raw inner markup is s, from position i:
\* each child with its markup as parsed (xml) and its tail, the text that
\* follows it up to the next child, as a text node (entities resolved).
RECURSIVE ChildrenFrom(_, _)
ChildrenFrom(s, i) ==
  IF i > Len(s) THEN <<>>
  ELSE LET e == IF s[i].t \in StartKinds THEN MatchingClose(s, i + 1, 1)
                ELSE i
           S == {j \in (e + 1)..Len(s) : IsChildStart(s[j])}
           n == IF S = {} THEN Len(s) + 1 ELSE Min(S)
       IN <<[xml |-> Parsed(SubSeq(s, i, e)),
             tail |-> Unescape(SubSeq(s, e + 1, n - 1))]>>
          \o ChildrenFrom(s, n)

\* The ET.Element of a <string> whose raw inner markup is s.
ElementOf(s) ==
  LET S == {j \in DOMAIN s : IsChildStart(s[j])}
      n == IF S = {} THEN Len(s) + 1 ELSE Min(S)
  IN [text |-> Unescape(SubSeq(s, 1, n - 1)), children |-> ChildrenFrom(s, n)]

\* ET.parse(path).getroot().findall("string"), as {name: element}: the direct
\* <string> children of the root, a later element of a name replacing an
\* earlier one.  ok is FALSE when the parser raises ParseError, which it does
\* when the delimiters do not balance.
RECURSIVE EtScan(_, _, _)
EtScan(s, i, acc) ==
  IF i > Len(s) THEN [ok |-> TRUE, strings |-> acc]
  ELSE IF s[i].t = "close" THEN [ok |-> FALSE, strings |-> EmptyDict]
  ELSE IF s[i].t \in StartKinds THEN
         LET c == MatchingClose(s, i + 1, 1)
         IN IF c = 0 THEN [ok |-> FALSE, strings |-> EmptyDict]
            ELSE EtScan(s, c + 1,
                        Put(acc, s[i].v, ElementOf(SubSeq(s, i + 1, c - 1))))
  ELSE IF s[i].t = "selfclosed" THEN
         EtScan(s, i + 1, Put(acc, s[i].v, ElementOf(<<>>)))
  ELSE EtScan(s, i + 1, acc)

EtParseStrings(s) == EtScan(s, 1, EmptyDict)

\* The serialiser writes an element without text and children as an empty
\* element: an opening delimiter directly followed by a closing one.
RECURSIVE ShortEmpty(_)
ShortEmpty(s) ==
  IF Len(s) < 2 THEN s
  ELSE IF s[1].t = "open" /\ s[2].t = "close"
       THEN <<SelfClosed(s[1].v)>> \o ShortEmpty(SubSeq(s, 3, Len(s)))
       ELSE <<s[1]>> \o ShortEmpty(Tail(s))

\* A start tag with the xmlns declaration written on it.
AddXmlns(t) ==
  IF t.t = "elem" THEN ElemNs(t.v)
  ELSE IF t.t = "open" THEN OpenNs(t.v)
  ELSE t

\* ET.tostring(child, encoding="unicode"): the child's markup followed by the
\* child's tail, escaped.  When the child is or holds a namespaced tag, the
\* xmlns declaration is written once, on the child's own start tag.
ET_tostring(child) ==
  LET xml == ShortEmpty(child.xml)
      ns == \E i \in DOMAIN xml : xml[i].t = "elem" /\ Namespaced(xml[i].v)
  IN [i \in DOMAIN xml |-> IF i = 1 /\ ns THEN AddXmlns(xml[i]) ELSE xml[i]]
       \o Escape(child.tail)

\* re.sub(r'\s+xmlns(:\w+)?="[^"]+"', "", child_xml)
StripXmlnsTok(t) ==
  IF t.t = "elemns" THEN Elem(t.v)
  ELSE IF t.t = "openns" THEN Open(t.v)
  ELSE t
StripXmlns(s) == [i \in DOMAIN s |-> StripXmlnsTok(s[i])]

element_inner_xml(elem) ==
  elem.text
    \o Flatten([i \in DOMAIN elem.children |->
                  StripXmlns(ET_tostring(elem.children[i]))])

\* ------------------------------------------------------------ load_mapping
\* A mapping file is its header row and its data rows (new_key, old_key).
MappingHeader == <<"new_key", "old_key">>

\* ok is FALSE when ValueError is raised for an unexpected header.
load_mapping(file) ==
  IF file.header # MappingHeader
  THEN [ok |-> FALSE, rows |-> <<>>]
  ELSE [ok |-> TRUE, rows |-> file.rows]

\* --------------------------------------------------------- rewrite_strings
RECURSIVE RewriteFrom(_, _, _, _, _)
RewriteFrom(target, ms, repl, i, last) ==
  IF i > Len(ms) THEN SubSeq(target, last, Len(target))
  ELSE LET m == ms[i]
       IN SubSeq(target, last, m.start - 1)
          \o (IF m.name \notin DOMAIN repl
              THEN SubSeq(target, m.start, m.end)
              ELSE <<target[m.start]>> \o repl[m.name] \o <<target[m.end]>>)
          \o RewriteFrom(target, ms, repl, i + 1, m.end + 1)

\* The text of the destination file after rewrite_strings, dest being its
\* text before: with no replacement at all nothing is written.
rewrite_strings(target, repl, dest) ==
  IF DOMAIN repl = {} THEN dest
  ELSE RewriteFrom(target, FindIter(target), repl, 1, 1)

\* ---------------------------------------------------------- apply_mappings
\* key.startswith("legacy_")
StartsWithLegacy(k) == k \in {"legacy_c"}

PortStats ==
  [applied |-> 0, fallback_existing |-> 0, fallback_default |-> 0,
   missing_old |-> {}, missing_new |-> {}]

ApplyStart == [replacements |-> EmptyDict, stats |-> PortStats]

\* One iteration of the mapping loop on the pair (new_key, old_key).
\* match_map is given by its set of keys.

\* A mutant: a default fallback is not counted.
MapStep_uncounted_default(st, pair, legacy, existing, match_map, defaults) ==
  LET new_key == pair[1]
      old_key == pair[2]
  IN IF new_key \notin match_map
     THEN [st EXCEPT !.stats.missing_new = @ \cup {new_key}]
     ELSE IF old_key \in DOMAIN legacy
     THEN [replacements |->
             Put(st.replacements, new_key, element_inner_xml(legacy[old_key])),
           stats |-> [st.stats EXCEPT !.applied = @ + 1]]
     ELSE IF new_key \in DOMAIN existing
     THEN [replacements |-> Put(st.replacements, new_key, existing[new_key]),
           stats |-> [st.stats EXCEPT !.fallback_existing = @ + 1,
                                      !.missing_old = @ \cup {old_key}]]
     ELSE [replacements |->
             Put(st.replacements, new_key, DictGet(defaults, new_key, <<>>)),
           stats |-> [st.stats EXCEPT !.missing_old = @ \cup {old_key}]]

\* A mutant: the base default is preferred to the existing translation.
MapStep_default_first(st, pair, legacy, existing, match_map, defaults) ==
  LET new_key == pair[1]
      old_key == pair[2]
  IN IF new_key \notin match_map
     THEN [st EXCEPT !.stats.missing_new = @ \cup {new_key}]
     ELSE IF old_key \in DOMAIN legacy
     THEN [replacements |->
             Put(st.replacements, new_key, element_inner_xml(legacy[old_key])),
           stats |-> [st.stats EXCEPT !.applied = @ + 1]]
     ELSE IF new_key \in DOMAIN defaults
     THEN [replacements |-> Put(st.replacements, new_key, defaults[new_key]),
           stats |-> [st.stats EXCEPT !.fallback_default = @ + 1,
                                      !.missing_old = @ \cup {old_key}]]
     ELSE [replacements |->
             Put(st.replacements, new_key, DictGet(existing, new_key, <<>>)),
           stats |-> [st.stats EXCEPT !.fallback_existing = @ + 1,
                                      !.missing_old = @ \cup {old_key}]]

\* A mutant: an unknown new key is not skipped; it falls through to the
\* fallback accounting.
MapStep_no_skip(st, pair, legacy, existing, match_map, defaults) ==
  LET new_key == pair[1]
      old_key == pair[2]
      st1 == IF new_key \notin match_map
             THEN [st EXCEPT !.stats.missing_new = @ \cup {new_key}]
             ELSE st
  IN IF old_key \in DOMAIN legacy
     THEN [replacements |->
             Put(st1.replacements, new_key, element_inner_xml(legacy[old_key])),
           stats |-> [st1.stats EXCEPT !.applied = @ + 1]]
     ELSE IF new_key \in DOMAIN existing
     THEN [replacements |-> Put(st1.replacements, new_key, existing[new_key]),
           stats |-> [st1.stats EXCEPT !.fallback_existing = @ + 1,
                                       !.missing_old = @ \cup {old_key}]]
     ELSE [replacements |->
             Put(st1.replacements, new_key, DictGet(defaults, new_key, <<>>)),
           stats |-> [st1.stats EXCEPT !.fallback_default = @ + 1,
                                       !.missing_old = @ \cup {old_key}]]

MapStep(st, pair, legacy, existing, match_map, defaults) ==
  LET new_key == pair[1]
      old_key == pair[2]
  IN IF new_key \notin match_map
     THEN [st EXCEPT !.stats.missing_new = @ \cup {new_key}]
     ELSE IF old_key \in DOMAIN legacy
     THEN [replacements |->
             Put(st.replacements, new_key, element_inner_xml(legacy[old_key])),
           stats |-> [st.stats EXCEPT !.applied = @ + 1]]
     ELSE IF new_key \in DOMAIN existing
     THEN [replacements |-> Put(st.replacements, new_key, existing[new_key]),
           stats |-> [st.stats EXCEPT !.fallback_existing = @ + 1,
                                      !.missing_old = @ \cup {old_key}]]
     ELSE [replacements |->
             Put(st.replacements, new_key, DictGet(defaults, new_key, <<>>)),
           stats |-> [st.stats EXCEPT !.fallback_default = @ + 1,
                                      !.missing_old = @ \cup {old_key}]]

\* The second loop: existing translations the mapping pass left untouched.

\* A mutant: the reserved prefix is not looked at.
CopyForward_keep_legacy_prefix(st, existing, match_map) ==
  LET copied == {k \in DOMAIN existing :
                   k \notin DOMAIN st.replacements /\ k \in match_map}
  IN [st EXCEPT !.replacements =
        [k \in (DOMAIN st.replacements) \cup copied |->
           IF k \in DOMAIN st.replacements THEN st.replacements[k]
           ELSE existing[k]]]

CopyForward(st, existing, match_map) ==
  LET copied == {k \in DOMAIN existing :
                   ~ StartsWithLegacy(k) /\ k \notin DOMAIN st.replacements
                   /\ k \in match_map}
  IN [st EXCEPT !.replacements =
        [k \in (DOMAIN st.replacements) \cup copied |->
           IF k \in DOMAIN st.replacements THEN st.replacements[k]
           ELSE existing[k]]]

RECURSIVE MapLoop(_, _, _, _, _, _, _)
MapLoop(st, mappings, i, legacy, existing, match_map, defaults) ==
  IF i > Len(mappings) THEN st
  ELSE MapLoop(MapStep(st, mappings[i], legacy, existing, match_map, defaults),
               mappings, i + 1, legacy, existing, match_map, defaults)

apply_mappings(mappings, legacy, existing, match_map, defaults) ==
  CopyForward(MapLoop(ApplyStart, mappings, 1, legacy, existing, match_map,
                      defaults),
              existing, match_map)

\* ================================================================== state
VARIABLES
  baseFile,         \* values/strings.xml
  langDir,          \* values-<lang>/ and its strings.xml
  legacyDir,        \* legacy/values-<lang>/ and its strings.xml
  legacyParent,     \* whether legacy/ exists
  mappingFile,      \* scripts/mapping_2025.csv
  pc,               \* position of the running code
  exitCode,         \* exit status of the last run of main, -1 before any
  stderr,           \* the error the last run of main ended with, "" if none
  runs,             \* runs of main started so far
  snap,             \* the filesystem as it was when the current run started
  archive_of,       \* the run whose move created the archive, 0 if none did
  mappings, legacy_strings, existing_strings, match_map, default_bodies,
  target_content, replacements, stats,     \* locals of main / apply_mappings
  idx,              \* position of the mapping loop of apply_mappings
  destination,      \* the file rewrite_strings writes
  reparsed          \* parse_string_bodies of the rewritten destination

fsVars == <<baseFile, langDir, legacyDir, legacyParent, mappingFile>>
runVars == <<pc, exitCode, stderr, runs, snap, archive_of>>
inVars == <<mappings, legacy_strings, existing_strings, match_map,
            default_bodies, target_content>>
outVars == <<replacements, stats>>
auxVars == <<idx, destination, reparsed>>
vars == <<fsVars, runVars, inVars, outVars, auxVars>>

NoFile == [exists |-> FALSE, text |-> <<>>]
File(t) == [exists |-> TRUE, text |-> t]
NoDir == [exists |-> FALSE, strings |-> NoFile]
Dir(f) == [exists |-> TRUE, strings |-> f]
NoMapping == [exists |-> FALSE, header |-> <<>>, rows |-> <<>>]
Mapping(h, r) == [exists |-> TRUE, header |-> h, rows |-> r]

FS == [base |-> baseFile, lang |-> langDir, legacy |-> legacyDir,
       parent |-> legacyParent, mapping |-> mappingFile]

\* -------------------------------------------------- inputs of the model
BaseTexts ==
  { <<Txt("hdr"), Open("new_a"), Txt("Hi"), Close, Txt("nl"),
      Open("new_b"), Txt("Hey"), Close>>,
    <<Open("new_b"), Txt("Hey"), Close>> }

LangTexts ==
  { <<Open("old_a"), Txt("Hello"), Close, Open("new_b"), Txt("Ola"), Close>>,
    <<Open("old_a"), Txt("p"), EscClose, EscOpen("new_b"), Txt("q"), Close>>,
    <<Open("old_a"), Txt("Hello")>> }

OldArchive == Dir(File(<<Open("old_a"), Txt("Antes"), Close>>))

MappingRows ==
  { <<<<"new_a", "old_a">>, <<"new_b", "old_x">>>>,
    <<<<"new_a", "old_a">>>>,
    <<>> }

MappingFiles ==
  {NoMapping}
    \cup {Mapping(MappingHeader, r) : r \in MappingRows}
    \cup {Mapping(<<"old_key", "new_key">>, r) :
            r \in {<<<<"old_a", "new_a">>>>}}

NoLocals ==
  /\ mappings = <<>>
  /\ legacy_strings = EmptyDict
  /\ existing_strings = EmptyDict
  /\ match_map = {}
  /\ default_bodies = EmptyDict
  /\ target_content = <<>>
  /\ replacements = EmptyDict
  /\ stats = PortStats

NoLocals_next ==
  /\ mappings' = <<>>
  /\ legacy_strings' = EmptyDict
  /\ existing_strings' = EmptyDict
  /\ match_map' = {}
  /\ default_bodies' = EmptyDict
  /\ target_content' = <<>>
  /\ replacements' = EmptyDict
  /\ stats' = PortStats

\* ================================================================== main
Init ==
  /\ baseFile \in {NoFile} \cup {File(t) : t \in BaseTexts}
  /\ langDir \in {NoDir, Dir(NoFile)} \cup {Dir(File(t)) : t \in LangTexts}
  /\ legacyDir \in {NoDir, OldArchive}
  /\ legacyParent \in {b \in BOOLEAN : legacyDir.exists => b}
  /\ mappingFile \in MappingFiles
  /\ pc = "idle"
  /\ exitCode = -1
  /\ stderr = ""
  /\ runs = 0
  /\ snap = FS
  /\ archive_of = 0
  /\ NoLocals
  /\ idx = 0
  /\ destination = NoFile
  /\ reparsed = EmptyDict

\* The process is started on the tree as it is.
Start ==
  /\ pc \in {"idle", "exited"}
  /\ runs < MaxRuns
  /\ pc' = "check_base"
  /\ runs' = runs + 1
  /\ snap' = FS
  /\ exitCode' = -1
  /\ stderr' = ""
  /\ NoLocals_next
  /\ UNCHANGED <<fsVars, archive_of, auxVars>>

\* Between two runs the translator follows the advice of the error message
\* and removes the archive.
UserRemovesArchive ==
  /\ pc = "exited"
  /\ legacyDir.exists
  /\ legacyDir' = NoDir
  /\ pc' = "idle"
  /\ UNCHANGED <<baseFile, langDir, legacyParent, mappingFile, exitCode,
                 stderr, runs, snap, archive_of, inVars, outVars, auxVars>>

\* return 1 after a message on the error stream, or an uncaught exception.
Abort(msg) ==
  /\ pc' = "exited"
  /\ exitCode' = 1
  /\ stderr' = msg

Check(here, failed, msg, next) ==
  /\ pc = here
  /\ IF failed THEN Abort(msg)
     ELSE pc' = next /\ UNCHANGED <<exitCode, stderr>>
  /\ UNCHANGED <<fsVars, runs, snap, archive_of, inVars, outVars, auxVars>>

CheckBase ==
  Check("check_base", ~ baseFile.exists, "missing_base", "check_lang")

CheckLang ==
  Check("check_lang", ~ langDir.exists, "missing_lang", "check_legacy")

\* A mutant: an occupied archive destination is not looked for.
CheckLegacyDir_skipped ==
  Check("check_legacy", FALSE, "archive_exists", "check_mapping")

CheckLegacyDir ==
  Check("check_legacy", legacyDir.exists, "archive_exists", "check_mapping")

CheckMapping ==
  Check("check_mapping", ~ mappingFile.exists, "missing_mapping",
        "read_existing")

read_existing_strings(lang_dir) ==
  IF ~ lang_dir.strings.exists THEN EmptyDict
  ELSE parse_string_bodies(lang_dir.strings.text)

ReadExisting ==
  /\ pc = "read_existing"
  /\ existing_strings' = read_existing_strings(langDir)
  /\ pc' = "mkdir_parent"
  /\ UNCHANGED <<fsVars, exitCode, stderr, runs, snap, archive_of, mappings,
                 legacy_strings, match_map, default_bodies, target_content,
                 outVars, auxVars>>

MkdirLegacyParent ==
  /\ pc = "mkdir_parent"
  /\ legacyParent' = TRUE
  /\ pc' = "move"
  /\ UNCHANGED <<baseFile, langDir, legacyDir, mappingFile, exitCode, stderr,
                 runs, snap, archive_of, inVars, outVars, auxVars>>

\* shutil.move of the language folder to the (free) archive path.
MoveToLegacy ==
  /\ pc = "move"
  /\ legacyDir' = langDir
  /\ langDir' = NoDir
  /\ archive_of' = runs
  /\ pc' = "mkdir_fresh"
  /\ UNCHANGED <<baseFile, legacyParent, mappingFile, exitCode, stderr, runs,
                 snap, inVars, outVars, auxVars>>

MkdirFresh ==
  /\ pc = "mkdir_fresh"
  /\ langDir' = IF langDir.exists THEN langDir ELSE Dir(NoFile)
  /\ pc' = "copy_base"
  /\ UNCHANGED <<baseFile, legacyDir, legacyParent, mappingFile, exitCode,
                 stderr, runs, snap, archive_of, inVars, outVars, auxVars>>

CopyBase ==
  /\ pc = "copy_base"
  /\ langDir' = [langDir EXCEPT !.strings = baseFile]
  /\ pc' = "load_mapping"
  /\ UNCHANGED <<baseFile, legacyDir, legacyParent, mappingFile, exitCode,
                 stderr, runs, snap, archive_of, inVars, outVars, auxVars>>

LoadMapping ==
  /\ pc = "load_mapping"
  /\ LET r == load_mapping(mappingFile)
     IN IF ~ r.ok
        THEN Abort("bad_header") /\ UNCHANGED mappings
        ELSE /\ mappings' = r.rows
             /\ pc' = "check_legacy_file"
             /\ UNCHANGED <<exitCode, stderr>>
  /\ UNCHANGED <<fsVars, runs, snap, archive_of, legacy_strings,
                 existing_strings, match_map, default_bodies, target_content,
                 outVars, auxVars>>

CheckLegacyFile ==
  Check("check_legacy_file", ~ legacyDir.strings.exists,
        "missing_legacy_file", "parse_legacy")

ParseLegacy ==
  /\ pc = "parse_legacy"
  /\ LET r == EtParseStrings(legacyDir.strings.text)
     IN IF ~ r.ok
        THEN Abort("parse_error") /\ UNCHANGED legacy_strings
        ELSE /\ legacy_strings' = r.strings
             /\ pc' = "read_target"
             /\ UNCHANGED <<exitCode, stderr>>
  /\ UNCHANGED <<fsVars, runs, snap, archive_of, mappings, existing_strings,
                 match_map, default_bodies, target_content, outVars, auxVars>>

ReadTarget ==
  /\ pc = "read_target"
  /\ target_content' = langDir.strings.text
  /\ match_map' = DOMAIN parse_string_bodies(langDir.strings.text)
  /\ default_bodies' = parse_string_bodies(langDir.strings.text)
  /\ pc' = "apply"
  /\ UNCHANGED <<fsVars, exitCode, stderr, runs, snap, archive_of, mappings,
                 legacy_strings, existing_strings, outVars, auxVars>>

ApplyMappings ==
  /\ pc = "apply"
  /\ LET r == apply_mappings(mappings, legacy_strings, existing_strings,
                             match_map, default_bodies)
     IN replacements' = r.replacements /\ stats' = r.stats
  /\ pc' = "rewrite"
  /\ UNCHANGED <<fsVars, exitCode, stderr, runs, snap, archive_of, inVars,
                 auxVars>>

\* A mutant: the result is written to the archived file.
RewriteAndReport_in_archive ==
  /\ pc = "rewrite"
  /\ legacyDir' =
       [legacyDir EXCEPT !.strings =
          File(rewrite_strings(target_content, replacements,
                               legacyDir.strings.text))]
  /\ pc' = "exited"
  /\ exitCode' = 0
  /\ UNCHANGED <<baseFile, langDir, legacyParent, mappingFile, stderr, runs,
                 snap, archive_of, inVars, outVars, auxVars>>

\* rewrite_strings into the fresh strings.xml, report_stats, return 0.
RewriteAndReport ==
  /\ pc = "rewrite"
  /\ langDir' =
       [langDir EXCEPT !.strings =
          File(rewrite_strings(target_content, replacements,
                               langDir.strings.text))]
  /\ pc' = "exited"
  /\ exitCode' = 0
  /\ UNCHANGED <<baseFile, legacyDir, legacyParent, mappingFile, stderr, runs,
                 snap, archive_of, inVars, outVars, auxVars>>

Next ==
  \/ Start
  \/ UserRemovesArchive
  \/ CheckBase
  \/ CheckLang
  \/ CheckLegacyDir
  \/ CheckMapping
  \/ ReadExisting
  \/ MkdirLegacyParent
  \/ MoveToLegacy
  \/ MkdirFresh
  \/ CopyBase
  \/ LoadMapping
  \/ CheckLegacyFile
  \/ ParseLegacy
  \/ ReadTarget
  \/ ApplyMappings
  \/ RewriteAndReport

Spec == Init /\ [][Next]_vars

\* ======================================================== apply_mappings
\* apply_mappings on its own, one loop iteration at a time, for every choice
\* of its five arguments within the pools below.
NewKeyPool == {"new_a", "new_b"}
OldKeyPool == {"old_a", "old_x"}
TargetKeyPool == {"new_a", "new_b", "legacy_c"}

HelloElem == [text |-> <<Txt("Hello")>>, children |-> <<>>]
\* <string ..>p&lt;/string&gt;<xliff:g>..</xliff:g>&lt;/string&gt;</string>
MarkupElem ==
  [text |-> <<Txt("p"), Close>>,
   children |-> <<[xml |-> <<Elem("xliff:g")>>, tail |-> <<Close>>]>>]
LegacyElems == {HelloElem, MarkupElem}

ExistingBody(k) ==
  IF k = "new_a" THEN <<>>
  ELSE IF k = "new_b" THEN <<Txt("Ola")>>
  ELSE <<Txt("Velho")>>

DefaultBody(k) ==
  IF k = "new_a" THEN <<Txt("Hi")>>
  ELSE IF k = "new_b" THEN <<Txt("Hey")>>
  ELSE <<Txt("Old")>>

SeqsUpTo(S, n) == UNION {[1..m -> S] : m \in 0..n}
DictsOver(K, V) == UNION {[D -> V] : D \in SUBSET K}

InitApply ==
  /\ mappings \in SeqsUpTo(NewKeyPool \X OldKeyPool, MaxPairs)
  /\ legacy_strings \in DictsOver(OldKeyPool, LegacyElems)
  /\ existing_strings \in
       {[k \in D |-> ExistingBody(k)] : D \in SUBSET TargetKeyPool}
  /\ match_map \in SUBSET TargetKeyPool
  /\ default_bodies \in
       {[k \in D |-> DefaultBody(k)] : D \in {match_map, match_map \ {"new_a"}}}
  /\ target_content = <<>>
  /\ replacements = EmptyDict
  /\ stats = PortStats
  /\ idx = 1
  /\ pc = "map"
  /\ baseFile = NoFile
  /\ langDir = NoDir
  /\ legacyDir = NoDir
  /\ legacyParent = FALSE
  /\ mappingFile = NoMapping
  /\ exitCode = -1
  /\ stderr = ""
  /\ runs = 0
  /\ snap = FS
  /\ archive_of = 0
  /\ destination = NoFile
  /\ reparsed = EmptyDict

\* One iteration of "for new_key, old_key in mappings".
MapIteration ==
  /\ pc = "map"
  /\ idx <= Len(mappings)
  /\ LET r == MapStep([replacements |-> replacements, stats |-> stats],
                      mappings[idx], legacy_strings, existing_strings,
                      match_map, default_bodies)
     IN replacements' = r.replacements /\ stats' = r.stats
  /\ idx' = idx + 1
  /\ UNCHANGED <<fsVars, runVars, inVars, destination, reparsed>>

\* The loop over existing_strings.items() and the return.
CopyForwardAndReturn ==
  /\ pc = "map"
  /\ idx > Len(mappings)
  /\ LET r == CopyForward([replacements |-> replacements, stats |-> stats],
                          existing_strings, match_map)
     IN replacements' = r.replacements /\ stats' = r.stats
  /\ pc' = "returned"
  /\ UNCHANGED <<fsVars, exitCode, stderr, runs, snap, archive_of, inVars,
                 auxVars>>

NextApply == MapIteration \/ CopyForwardAndReturn

SpecApply == InitApply /\ [][NextApply]_vars

\* ======================================================= rewrite_strings
\* rewrite_strings followed by parse_string_bodies of what it wrote, for
\* every target text up to MaxLen tokens and every replacement table within
\* the pools below.  As in main, the destination holds the freshly copied
\* target and every replaced key is a key of the target.
TextAlphabet == {Open("new_a"), Open("new_b"), Close, Txt("x")}

\* Bodies as apply_mappings hands them over: plain text, the empty body, and
\* the inner XML of legacy elements whose text held &lt;/string&gt;.
BodyPool ==
  { <<Txt("y")>>, <<>>, <<Txt("p"), Close, Txt("q")>>,
    <<Txt("p"), Close, Open("new_b"), Txt("q")>> }

InitRewrite ==
  /\ target_content \in SeqsUpTo(TextAlphabet, MaxLen)
  /\ replacements \in
       DictsOver(DOMAIN parse_string_bodies(target_content), BodyPool)
  /\ destination = File(target_content)
  /\ reparsed = EmptyDict
  /\ pc = "rewrite"
  /\ mappings = <<>>
  /\ legacy_strings = EmptyDict
  /\ existing_strings = EmptyDict
  /\ match_map = {}
  /\ default_bodies = EmptyDict
  /\ stats = PortStats
  /\ idx = 0
  /\ baseFile = NoFile
  /\ langDir = NoDir
  /\ legacyDir = NoDir
  /\ legacyParent = FALSE
  /\ mappingFile = NoMapping
  /\ exitCode = -1
  /\ stderr = ""
  /\ runs = 0
  /\ snap = FS
  /\ archive_of = 0

RewriteStrings ==
  /\ pc = "rewrite"
  /\ destination' =
       File(rewrite_strings(target_content, replacements, destination.text))
  /\ pc' = "written"
  /\ UNCHANGED <<fsVars, exitCode, stderr, runs, snap, archive_of, inVars,
                 outVars, idx, reparsed>>

ParseRewritten ==
  /\ pc = "written"
  /\ reparsed' = parse_string_bodies(destination.text)
  /\ pc' = "parsed"
  /\ UNCHANGED <<fsVars, exitCode, stderr, runs, snap, archive_of, inVars,
                 outVars, idx, destination>>

NextRewrite == RewriteStrings \/ ParseRewritten

SpecRewrite == InitRewrite /\ [][NextRewrite]_vars

\* ================================================================ claims

\* ---- C1 -----------------------------------------------------------------
PreconditionErrors ==
  {"missing_base", "missing_lang", "archive_exists", "missing_mapping",
   "bad_header"}

\* C1: a run of main that ends on a precondition error (missing base file,
\* missing language folder, occupied archive destination, missing mapping
\* file, malformed mapping header) ends with a non-zero status and with the
\* filesystem exactly as it was when the run started.
C1_PreconditionAbortsBeforeMutation ==
  (pc = "exited" /\ stderr \in PreconditionErrors)
    => (exitCode # 0 /\ FS = snap)

\* ---- C2 -----------------------------------------------------------------
\* C2: a run of main started while an archive exists at legacy/values-<lang>
\* gets no further than the archive check, ends with a non-zero status, and
\* leaves every file and folder as it was when the run started.
C2_ArchiveSafety ==
  (runs >= 1 /\ pc # "idle" /\ snap.legacy.exists)
    => /\ FS = snap
       /\ pc \in {"check_base", "check_lang", "check_legacy", "exited"}
       /\ pc = "exited" => (exitCode = 1 /\ stderr # "")

\* The second run found the archive the first run had created and stopped.
C2_Witness ==
  /\ pc = "exited"
  /\ runs = 2
  /\ archive_of = 1
  /\ snap.legacy.exists
  /\ stderr = "archive_exists"
  /\ exitCode = 1
  /\ legacyDir = snap.legacy
  /\ langDir = snap.lang

\* ---- C3 -----------------------------------------------------------------
\* The body of a legacy entry: the text between its delimiters in the legacy
\* file.  HelloElem is the entry  Hello ; MarkupElem is the entry
\* p&lt;/string&gt;<xliff:g>..</xliff:g>&lt;/string&gt; .
LegacyBody(e) ==
  IF e = HelloElem THEN <<Txt("Hello")>>
  ELSE <<Txt("p"), EscClose, Elem("xliff:g"), EscClose>>

Returned == pc = "returned"

IsLastFor(i) ==
  \A j \in DOMAIN mappings : j > i => mappings[j][1] # mappings[i][1]

\* C3, for the pairs that decide the output (their new_key is a target key
\* and no later pair names it): if old_key has a legacy entry, the returned
\* table holds under new_key the body of that legacy entry.
C3_LegacyAlwaysWins ==
  Returned =>
    \A i \in DOMAIN mappings :
      (/\ mappings[i][2] \in DOMAIN legacy_strings
       /\ mappings[i][1] \in match_map
       /\ IsLastFor(i))
        => /\ mappings[i][1] \in DOMAIN replacements
           /\ replacements[mappings[i][1]]
                = LegacyBody(legacy_strings[mappings[i][2]])

\* ---- C4 -----------------------------------------------------------------
Counted == stats.applied + stats.fallback_existing + stats.fallback_default

\* C4: at every point of apply_mappings, and so when it returns, applied +
\* fallback_existing + fallback_default is the number of pairs processed so
\* far whose new_key is a target key.
C4_StatisticsConservation ==
  Counted = Cardinality({i \in 1..(idx - 1) : mappings[i][1] \in match_map})

\* Two pairs with the same new_key and the same old_key were both counted.
C4_Witness ==
  /\ Returned
  /\ Len(mappings) = 2
  /\ mappings[1] = mappings[2]
  /\ mappings[1][1] \in match_map
  /\ Counted = 2
  /\ stats.fallback_default = 2

\* ---- C5 -----------------------------------------------------------------
Hole == Tok("hole", "")

\* A text with the body of every entry blanked: its delimiters and all the
\* text outside its entries.
Skeleton(s) ==
  LET ms == FindIter(s)
  IN RewriteFrom(s, ms, [k \in {ms[i].name : i \in DOMAIN ms} |-> <<Hole>>],
                 1, 1)

\* C5: after rewrite_strings the destination has the entry keys of the target
\* in the same order, the same delimiters and the same text outside entries,
\* and the body of every entry whose key has no replacement is unchanged.
C5_SkeletonPreservation ==
  pc \in {"written", "parsed"}
    => /\ KeySeq(destination.text) = KeySeq(target_content)
       /\ Skeleton(destination.text) = Skeleton(target_content)
       /\ \A i \in DOMAIN FindIter(target_content) :
            FindIter(target_content)[i].name \notin DOMAIN replacements
              => FindIter(destination.text)[i].body
                   = FindIter(target_content)[i].body

\* ---- C6 -----------------------------------------------------------------
\* C6: parse_string_bodies of the text rewrite_strings wrote gives, for every
\* key that has a replacement, exactly that replacement.
C6_ExtractAfterRewrite ==
  pc = "parsed"
    => \A k \in DOMAIN replacements :
         k \in DOMAIN reparsed /\ reparsed[k] = replacements[k]

\* ---- C7 -----------------------------------------------------------------
BeforeMove ==
  {"check_base", "check_lang", "check_legacy", "check_mapping",
   "read_existing", "mkdir_parent", "move"}
AfterMove ==
  {"mkdir_fresh", "copy_base", "load_mapping", "check_legacy_file",
   "parse_legacy", "read_target", "apply", "rewrite"}

\* C7: up to the move nothing is created or written in the language folder
\* or the archive; from the move on, through every later step and at the end
\* of the run, the archive is exactly the language folder as the run found it.
C7_ArchiveIsSnapshot ==
  /\ pc \in BeforeMove => (langDir = snap.lang /\ legacyDir = snap.legacy)
  /\ (pc \in AfterMove \/ (pc = "exited" /\ runs >= 1 /\ archive_of = runs))
       => legacyDir = snap.lang

\* A run ended well: new content in the language folder, the old in the archive.
C7_Witness ==
  /\ pc = "exited"
  /\ exitCode = 0
  /\ archive_of = runs
  /\ DOMAIN replacements # {}
  /\ legacyDir = snap.lang
  /\ langDir # snap.lang
  /\ langDir.strings.text # target_content

\* ---- C8 -----------------------------------------------------------------
FallbackPair ==
  /\ pc = "map"
  /\ idx <= Len(mappings)
  /\ mappings[idx][1] \in match_map
  /\ mappings[idx][2] \notin DOMAIN legacy_strings

FallbackEffect ==
  LET new_key == mappings[idx][1]
      old_key == mappings[idx][2]
  IN /\ new_key \in DOMAIN replacements'
     /\ stats'.applied = stats.applied
     /\ old_key \in stats'.missing_old
     /\ IF new_key \in DOMAIN existing_strings
        THEN /\ replacements'[new_key] = existing_strings[new_key]
             /\ stats'.fallback_existing = stats.fallback_existing + 1
             /\ stats'.fallback_default = stats.fallback_default
        ELSE /\ replacements'[new_key]
                  = (IF new_key \in DOMAIN default_bodies
                     THEN default_bodies[new_key] ELSE <<>>)
             /\ stats'.fallback_default = stats.fallback_default + 1
             /\ stats'.fallback_existing = stats.fallback_existing

ExampleInputs ==
  /\ mappings = <<<<"new_a", "old_a">>, <<"new_b", "old_x">>>>
  /\ legacy_strings = [k \in {"old_a"} |-> HelloElem]
  /\ existing_strings = [k \in {"new_b"} |-> <<Txt("Ola")>>]
  /\ match_map = {"new_a", "new_b"}
  /\ default_bodies = [k \in {"new_a", "new_b"} |-> DefaultBody(k)]

ExampleOutputs ==
  /\ replacements =
       [k \in {"new_a", "new_b"} |->
          IF k = "new_a" THEN <<Txt("Hello")>> ELSE <<Txt("Ola")>>]
  /\ stats.applied = 1
  /\ stats.fallback_existing = 1
  /\ stats.fallback_default = 0
  /\ stats.missing_old = {"old_x"}

\* C8: the loop iteration on a pair whose new_key is a target key and whose
\* old_key has no legacy entry puts under new_key the existing body if there
\* is one (one more fallback_existing), otherwise the base default or the
\* empty body (one more fallback_default), and records old_key in missing_old;
\* old_key stays recorded, the body stays unless a later pair names the same
\* new_key; and the example of the specification gives the stated result.
C8_ExistingBeforeDefault ==
  /\ [][FallbackPair => FallbackEffect]_vars
  /\ [](Returned =>
          \A i \in DOMAIN mappings :
            (mappings[i][1] \in match_map
             /\ mappings[i][2] \notin DOMAIN legacy_strings)
              => /\ mappings[i][2] \in stats.missing_old
                 /\ IsLastFor(i) =>
                      replacements[mappings[i][1]]
                        = (IF mappings[i][1] \in DOMAIN existing_strings
                           THEN existing_strings[mappings[i][1]]
                           ELSE DictGet(default_bodies, mappings[i][1], <<>>)))
  /\ []((Returned /\ ExampleInputs) => ExampleOutputs)

\* The example of the specification has been run.
C8_Witness == Returned /\ ExampleInputs /\ ExampleOutputs

\* ---- C9 -----------------------------------------------------------------
CopyPass == pc = "map" /\ pc' = "returned"

CopyFrame ==
  /\ \A k \in DOMAIN replacements :
       k \in DOMAIN replacements' /\ replacements'[k] = replacements[k]
  /\ stats' = stats

\* C9 as stated: after the copy-forward pass a key of the existing table is in
\* the output with its existing body exactly if the mapping pass had not
\* produced it, it is a target key and it has no "legacy_" prefix; the pass
\* overwrites nothing and changes no statistic.
C9_CopyForwardIff ==
  [][CopyPass =>
       /\ CopyFrame
       /\ \A k \in DOMAIN existing_strings :
            (k \in DOMAIN replacements'
             /\ replacements'[k] = existing_strings[k])
              <=> (/\ k \notin DOMAIN replacements
                   /\ k \in match_map
                   /\ ~ StartsWithLegacy(k))]_vars

\* C9 amended: a key of the existing table that the mapping pass had not
\* produced is in the output after the copy-forward pass exactly if it is a
\* target key without the "legacy_" prefix, and then with its existing body;
\* the pass adds no other key, overwrites nothing and changes no statistic.
C9_CopyForwardOfUnmappedKeys ==
  [][CopyPass =>
       /\ CopyFrame
       /\ DOMAIN replacements'
            \subseteq (DOMAIN replacements) \cup (DOMAIN existing_strings)
       /\ \A k \in (DOMAIN existing_strings) \ (DOMAIN replacements) :
            /\ k \in DOMAIN replacements'
                 <=> (k \in match_map /\ ~ StartsWithLegacy(k))
            /\ k \in DOMAIN replacements'
                 => replacements'[k] = existing_strings[k]]_vars

MappedKeys == {mappings[i][1] : i \in DOMAIN mappings} \cap match_map

\* One existing key was copied forward, a "legacy_" target key was not, and
\* a mapped key kept its legacy body.
C9_Witness ==
  /\ Returned
  /\ "new_b" \in (DOMAIN existing_strings) \ MappedKeys
  /\ "new_b" \in DOMAIN replacements
  /\ replacements["new_b"] = existing_strings["new_b"]
  /\ "legacy_c" \in (DOMAIN existing_strings) \cap match_map
  /\ "legacy_c" \notin DOMAIN replacements
  /\ "new_a" \in MappedKeys \cap DOMAIN existing_strings
  /\ replacements["new_a"] = <<Txt("Hello")>>

\* ---- C10 ----------------------------------------------------------------
UnknownPair ==
  /\ pc = "map"
  /\ idx <= Len(mappings)
  /\ mappings[idx][1] \notin match_map

\* C10: the loop iteration on a pair whose new_key is not a target key only
\* adds new_key to missing_new: the output table, the three counters and
\* missing_old stay as they are; every key of the output table is a target
\* key and none is in missing_new.
C10_UnknownNewKeysSkipped ==
  /\ [][UnknownPair =>
          /\ replacements' = replacements
          /\ stats' = [stats EXCEPT !.missing_new = @ \cup {mappings[idx][1]}]
       ]_vars
  /\ [](/\ DOMAIN replacements \subseteq match_map
        /\ stats.missing_new \cap DOMAIN replacements = {}
        /\ stats.missing_new \cap match_map = {})

\* An unknown new key was skipped although its old key was missing from the
\* legacy table and an existing translation of it was at hand.
C10_Witness ==
  /\ Returned
  /\ \E i \in DOMAIN mappings :
       /\ mappings[i][1] \notin match_map
       /\ mappings[i][1] \in stats.missing_new
       /\ mappings[i][1] \in DOMAIN existing_strings
       /\ mappings[i][2] \notin DOMAIN legacy_strings
       /\ mappings[i][2] \notin stats.missing_old
       /\ mappings[i][1] \notin DOMAIN replacements

====
